---- MODULE Spec2Model ----
(***************************************************************************)
(* Model of Automatic-Updates/update_frontmatter.py: the hash ledger, the  *)
(* frontmatter splitter, the YAML subset the normalizer reads and writes,  *)
(* the field rules, the file rewriter and the directory run of main.       *)
(*                                                                         *)
(* A Python str is a sequence of tokens; a token is one character, or a    *)
(* run of characters none of which the code looks at ("Tech", ".md").      *)
(* A Python dict is the sequence of its items in insertion order.          *)
(***************************************************************************)
EXTENDS Integers, Sequences, FiniteSets, TLC

VARIABLES
    fs,             \* path -> content of every .md file of the directory
    store,          \* the ledger file: its text, or NoFile
    hashes,         \* main: the ledger as loaded
    updated_hashes, \* main: the ledger being built
    modified_files, \* main: the report
    pc,             \* where main is: "idle", "scan", "done", "crashed"
    todo,           \* paths get_markdown_files has not yet yielded
    run,            \* number of the run of main
    faults,         \* I/O faults injected so far
    saved,          \* how save_hashes ended in this run: "no", "ok", "denied", "truncated"
    outcome,        \* per path, how process_markdown_file ended in this run
    pre,            \* what the run began with: the files, the hash file, and
                    \* how the run before it ended
    npath,          \* normalizer check: the file path
    ndata,          \* normalizer check: the metadata mapping given
    ndoc,           \* normalizer check: the document on disk
    nres,           \* normalizer check: results, one per application
    ldres           \* loader check: what load_hashes returned

vars == <<fs, store, hashes, updated_hashes, modified_files, pc, todo, run, faults,
          saved, outcome, pre, npath, ndata, ndoc, nres, ldres>>

mainVars == <<fs, store, hashes, updated_hashes, modified_files, pc, todo, run, faults,
              saved, outcome, pre>>
normVars == <<npath, ndata, ndoc, nres>>

-----------------------------------------------------------------------------
(* Bounds *)

MaxCats == 3        \* longest `categories` list among the inputs
MaxApply == 2       \* applications of update_frontmatter to one document
MaxRuns == 2        \* runs of main in a row
MaxStoreLen == 6    \* longest ledger text the loader is given
MaxFaults == 1      \* I/O faults injected in one behaviour
MaxNameLen == 3     \* longest file name, in tokens before the extension

-----------------------------------------------------------------------------
(* Tokens *)

TAB == "\t"
SP == " "
NL == "\n"
MARK == "---"
DQ == "\""
SQ == "'"
COLON == ":"
DASH == "-"
SLASH == "/"
EXT == ".md"
USCORE == "_"

IsSpace(c) == c \in {TAB, SP, NL}

RECURSIVE LStrip(_)
LStrip(s) == IF s # <<>> /\ IsSpace(Head(s)) THEN LStrip(Tail(s)) ELSE s

RECURSIVE RStrip(_)
RStrip(s) ==
    IF s # <<>> /\ IsSpace(s[Len(s)]) THEN RStrip(SubSeq(s, 1, Len(s) - 1)) ELSE s

\* str.strip()
Strip(s) == LStrip(RStrip(s))

\* str.split(sep): always at least one part
SplitOn(s, sep) ==
    LET IsSep(i) == s[i] = sep
        at == SelectSeq([i \in 1..Len(s) |-> i], IsSep)
        n == Len(at)
    IN  [j \in 1..(n + 1) |->
            SubSeq(s, IF j = 1 THEN 1 ELSE at[j - 1] + 1, IF j = n + 1 THEN Len(s) ELSE at[j] - 1)]

\* iterating a text file: the lines, a final unterminated one included
FileLines(text) ==
    LET parts == SplitOn(text, NL)
    IN  IF parts[Len(parts)] = <<>> THEN SubSeq(parts, 1, Len(parts) - 1) ELSE parts

RECURSIVE Concat(_)
Concat(ss) == IF ss = <<>> THEN <<>> ELSE Head(ss) \o Concat(Tail(ss))

Range(s) == {s[i] : i \in 1..Len(s)}

-----------------------------------------------------------------------------
(* Python values of a metadata mapping, and dicts *)

\* q is the quoting style ruamel keeps on a string: "" plain, DQ or SQ
StrV(s, q) == [t |-> "str", s |-> s, q |-> q]
NullV == [t |-> "null"]
IntV(d) == [t |-> "int", s |-> <<d>>]
ListV(l) == [t |-> "seq", l |-> l]

DoubleQuotedScalarString(s) == StrV(s, DQ)

IsStr(v) == v.t = "str"
IsList(v) == v.t = "seq"

\* bool(v)
Truthy(v) ==
    CASE v.t = "str" -> v.s # <<>>
      [] v.t = "int" -> v.s # <<"0">>
      [] v.t = "seq" -> v.l # <<>>
      [] OTHER -> FALSE

\* ==, which does not see the quoting style
RECURSIVE PyEq(_, _)
PyEq(a, b) ==
    CASE a.t # b.t -> FALSE
      [] a.t = "str" -> a.s = b.s
      [] a.t = "int" -> a.s = b.s
      [] a.t = "seq" -> /\ Len(a.l) = Len(b.l)
                        /\ \A i \in 1..Len(a.l) : PyEq(a.l[i], b.l[i])
      [] OTHER -> TRUE

Keys(d) == {d[i].k : i \in 1..Len(d)}
Has(d, k) == k \in Keys(d)
Get(d, k) == LET i == CHOOSE j \in 1..Len(d) : d[j].k = k IN d[i].v
\* d[k] = v: an existing key keeps its place, a new one goes last
Put(d, k, v) ==
    IF Has(d, k) THEN [i \in 1..Len(d) |-> IF d[i].k = k THEN [k |-> k, v |-> v] ELSE d[i]]
    ELSE Append(d, [k |-> k, v |-> v])
Del(d, k) == LET Keep(e) == e.k # k IN SelectSeq(d, Keep)
\* d.get(k), None when k is absent
NoneStr == <<"<None>">>
GetOrNone(d, k) == IF Has(d, k) THEN Get(d, k) ELSE NoneStr

-----------------------------------------------------------------------------
(* The title a file name gives: update_title_and_date, line 161 *)

LowerLetters == <<"a", "b", "m", "p", "y">>
UpperLetters == <<"A", "B", "M", "P", "Y">>
IsLower(c) == c \in Range(LowerLetters)
IsUpper(c) == c \in Range(UpperLetters)
IsAlpha(c) == IsLower(c) \/ IsUpper(c)
ToUpper(c) ==
    IF IsLower(c)
    THEN UpperLetters[CHOOSE i \in 1..Len(LowerLetters) : LowerLetters[i] = c] ELSE c
ToLower(c) ==
    IF IsUpper(c)
    THEN LowerLetters[CHOOSE i \in 1..Len(UpperLetters) : UpperLetters[i] = c] ELSE c

\* os.path.basename: what follows the last "/"
RECURSIVE basename(_)
basename(p) ==
    IF SLASH \notin Range(p) THEN p ELSE basename(Tail(p))

\* str.replace(a, b) for one-token a
ReplaceTok(s, a, b) ==
    Concat([i \in 1..Len(s) |-> IF s[i] = a THEN b ELSE <<s[i]>>])

\* str.title(): a letter after a letter is lowered, any other letter is raised
RECURSIVE TitleFrom(_, _)
TitleFrom(s, afterLetter) ==
    IF s = <<>> THEN <<>>
    ELSE LET c == Head(s)
         IN  IF IsAlpha(c)
             THEN <<IF afterLetter THEN ToLower(c) ELSE ToUpper(c)>> \o TitleFrom(Tail(s), TRUE)
             ELSE <<c>> \o TitleFrom(Tail(s), FALSE)

default_title(file_path) ==
    TitleFrom(ReplaceTok(ReplaceTok(basename(file_path), EXT, <<>>), USCORE, <<SP>>), FALSE)

-----------------------------------------------------------------------------
(* The YAML subset: block mappings of scalars and of block lists of scalars *)

Digits == {"0", "5"}
Err == [t |-> "err"]

\* tokens a plain (unquoted) scalar cannot hold in this subset
Indicators == {DQ, SQ, COLON, "[", "]", "{", "}", "#", TAB, NL, MARK}

PlainOK(toks) ==
    /\ toks # <<>>
    /\ Range(toks) \cap Indicators = {}
    /\ Head(toks) # DASH
    /\ ~IsSpace(Head(toks)) /\ ~IsSpace(toks[Len(toks)])

\* what the loader makes of the text of one scalar
ParseScalar(toks) ==
    CASE toks = <<>> -> NullV
      [] toks # <<>> /\ Head(toks) \in {DQ, SQ} ->
            LET inner == SubSeq(toks, 2, Len(toks) - 1)
            IN  IF Len(toks) >= 2 /\ toks[Len(toks)] = Head(toks)
                   /\ Head(toks) \notin Range(inner) /\ NL \notin Range(inner)
                THEN StrV(inner, Head(toks)) ELSE Err
      [] toks = <<"[", "]">> -> ListV(<<>>)
      [] Len(toks) = 1 /\ Head(toks) \in Digits -> IntV(Head(toks))
      [] PlainOK(toks) /\ ~(Len(toks) = 1 /\ Head(toks) \in Digits) -> StrV(toks, "")
      [] OTHER -> Err

\* what the dumper writes for one scalar: a string keeps its style, and a
\* plain string that would not load back as itself is quoted
DumpScalar(v) ==
    CASE v.t = "str" ->
            IF v.q # "" THEN <<v.q>> \o v.s \o <<v.q>>
            ELSE IF ParseScalar(v.s) = v THEN v.s ELSE <<SQ>> \o v.s \o <<SQ>>
      [] v.t = "int" -> v.s
      [] v.t = "seq" -> <<"[", "]">>
      [] OTHER -> <<>>

DumpEntry(e) ==
    IF e.v.t = "seq" /\ e.v.l # <<>>
    THEN <<e.k, COLON, NL>>
         \o Concat([i \in 1..Len(e.v.l) |-> <<DASH, SP>> \o DumpScalar(e.v.l[i]) \o <<NL>>])
    ELSE IF e.v.t = "null" THEN <<e.k, COLON, NL>>
    ELSE <<e.k, COLON, SP>> \o DumpScalar(e.v) \o <<NL>>

\* yaml.dump(data, stream); stream.getvalue()
yaml_dump(data) ==
    IF data = <<>> THEN <<"{", "}", NL>>
    ELSE Concat([i \in 1..Len(data) |-> DumpEntry(data[i])])

\* the loader's state between lines: kind is "none" before the first node,
\* then "map", "list", "scalar", "flowmap", or "error"
LoadStart == [kind |-> "none", m |-> <<>>, v |-> NullV, open |-> FALSE]
LoadError == [kind |-> "error", m |-> <<>>, v |-> NullV, open |-> FALSE]

LoadKV(acc, k, v) ==
    IF v = Err \/ acc.kind \notin {"none", "map"} \/ Has(acc.m, k) THEN LoadError
    ELSE [kind |-> "map", m |-> Append(acc.m, [k |-> k, v |-> v]), v |-> NullV,
          open |-> (v = NullV)]

LoadItem(acc, v) ==
    IF v = Err THEN LoadError
    ELSE IF acc.kind = "map" /\ acc.open
    THEN LET n == Len(acc.m)
             old == acc.m[n].v
             new == ListV((IF old = NullV THEN <<>> ELSE old.l) \o <<v>>)
         IN  [acc EXCEPT !.m = [acc.m EXCEPT ![n] = [k |-> acc.m[n].k, v |-> new]]]
    ELSE IF acc.kind = "none" THEN [acc EXCEPT !.kind = "list", !.v = ListV(<<v>>)]
    ELSE IF acc.kind = "list" THEN [acc EXCEPT !.v = ListV(acc.v.l \o <<v>>)]
    ELSE LoadError

LoadScalar(acc, v) ==
    IF v = Err \/ acc.kind # "none" THEN LoadError
    ELSE [acc EXCEPT !.kind = "scalar", !.v = v]

LoadLine(acc, raw) ==
    LET line == RStrip(raw)
        n == Len(line)
    IN  IF acc.kind = "error" THEN acc ELSE
        CASE line = <<>> -> acc
          [] line # <<>> /\ IsSpace(Head(line)) -> LoadError
          [] line = <<DASH>> -> LoadItem(acc, NullV)
          [] n >= 2 /\ line[1] = DASH /\ line[2] = SP ->
                LoadItem(acc, ParseScalar(Strip(SubSeq(line, 3, n))))
          [] n >= 2 /\ line[2] = COLON /\ PlainOK(<<line[1]>>) /\ (n = 2 \/ line[3] = SP) ->
                LoadKV(acc, line[1], ParseScalar(Strip(SubSeq(line, 3, n))))
          [] line = <<"{", "}">> ->
                IF acc.kind = "none" THEN [acc EXCEPT !.kind = "flowmap"] ELSE LoadError
          [] OTHER -> LoadScalar(acc, ParseScalar(line))

RECURSIVE LoadLines(_, _)
LoadLines(acc, lines) ==
    IF lines = <<>> THEN acc ELSE LoadLines(LoadLine(acc, Head(lines)), Tail(lines))

\* yaml.load(text): [ok |-> FALSE] when it raises; otherwise the document,
\* a dict (isdict) or any other value, None being NullV
yaml_load(text) ==
    LET document(acc) ==
            CASE acc.kind = "error" -> [ok |-> FALSE, isdict |-> FALSE, data |-> NullV]
              [] acc.kind \in {"map", "flowmap"} ->
                    [ok |-> TRUE, isdict |-> TRUE, data |-> acc.m]
              [] OTHER -> [ok |-> TRUE, isdict |-> FALSE, data |-> acc.v]
    IN  document(LoadLines(LoadStart, SplitOn(text, NL)))

\* parse_yaml_frontmatter: yaml.load(frontmatter_text) or {}, None on an exception
parse_yaml_frontmatter(frontmatter_text) ==
    LET orEmpty(r) ==
            IF ~r.ok THEN r
            ELSE IF r.isdict THEN r
            ELSE IF Truthy(r.data) THEN r
            ELSE [ok |-> TRUE, isdict |-> TRUE, data |-> <<>>]
    IN  orEmpty(yaml_load(frontmatter_text))

-----------------------------------------------------------------------------
(* The pipeline on one document *)

\* first index after `from` at which s holds tok, 0 if none
RECURSIVE IndexFrom(_, _, _)
IndexFrom(s, tok, from) ==
    IF from > Len(s) THEN 0
    ELSE IF s[from] = tok THEN from ELSE IndexFrom(s, tok, from + 1)

\* the check of line 120 lost: what follows an opening marker that is never
\* closed is taken as the metadata
split_frontmatterUnterminated(content) ==
    IF content = <<>> \/ Head(content) # MARK
    THEN [ok |-> FALSE, frontmatter_text |-> <<>>, body |-> <<>>]
    ELSE LET j == IndexFrom(content, MARK, 2)
         IN  [ok |-> TRUE,
              frontmatter_text |-> SubSeq(content, 2, IF j = 0 THEN Len(content) ELSE j - 1),
              body |-> IF j = 0 THEN <<>> ELSE SubSeq(content, j + 1, Len(content))]

\* split_frontmatter: (None, None) is [ok |-> FALSE]
split_frontmatter(content) ==
    LET none == [ok |-> FALSE, frontmatter_text |-> <<>>, body |-> <<>>]
    IN  IF content = <<>> \/ Head(content) # MARK THEN none
        ELSE LET j == IndexFrom(content, MARK, 2)
             IN  IF j = 0 THEN none
                 ELSE [ok |-> TRUE,
                       frontmatter_text |-> SubSeq(content, 2, j - 1),
                       body |-> SubSeq(content, j + 1, Len(content))]

\* the tests of lines 160 and 166 lost: title and date are set on every mapping
update_title_and_dateAlways(data, file_path, now) ==
    [data |-> Put(Put(data, "title", DoubleQuotedScalarString(default_title(file_path))),
                  "date", DoubleQuotedScalarString(now)),
     modified |-> TRUE]

\* update_title_and_date on a dict; now is datetime.now().isoformat()
update_title_and_date(data, file_path, now) ==
    LET noTitle == ~Has(data, "title") \/ ~Truthy(Get(data, "title"))
        d1 == IF noTitle
              THEN Put(data, "title", DoubleQuotedScalarString(default_title(file_path)))
              ELSE data
        noDate == ~Has(d1, "date") \/ ~Truthy(Get(d1, "date"))
        d2 == IF noDate THEN Put(d1, "date", DoubleQuotedScalarString(now)) ELSE d1
    IN  [data |-> d2, modified |-> noTitle \/ noDate]

\* the filter without its strip(): white space counts as a category
KeepCategoryNoStrip(cat) == IsStr(cat) /\ cat.s # <<>>

\* the filter of line 195: isinstance(cat, str) and cat.strip()
KeepCategory(cat) == IsStr(cat) /\ Strip(cat.s) # <<>>

\* what line 210 stores when `categories` is absent
DefaultCategories == DoubleQuotedScalarString(<<"Uncategorized">>)

update_categories(data) ==
    LET original_categories == Get(data, "categories")
        new_categories == SelectSeq(original_categories.l, KeepCategory)
        r1 == IF ~Has(data, "categories") THEN [data |-> data, modified |-> FALSE]
              ELSE IF IsList(original_categories)
              THEN IF new_categories = <<>>
                   THEN [data |-> Del(data, "categories"), modified |-> TRUE]
                   ELSE IF ~PyEq(ListV(new_categories), original_categories)
                   THEN [data |-> Put(data, "categories", ListV(new_categories)),
                         modified |-> TRUE]
                   ELSE [data |-> data, modified |-> FALSE]
              ELSE [data |-> Del(data, "categories"), modified |-> TRUE]
    IN  IF ~Has(r1.data, "categories")
        THEN [data |-> Put(r1.data, "categories", DefaultCategories), modified |-> TRUE]
        ELSE r1

\* the text save_frontmatter writes
updated_content(data, body) ==
    <<MARK, NL>> \o RStrip(yaml_dump(data)) \o <<NL, MARK>>
    \o (IF body # <<>> /\ Head(body) = NL THEN body ELSE <<NL>> \o body)

WriteFaults == {"ok", "denied", "truncated"}

\* save_frontmatter: the file afterwards and the value returned; a failed
\* open leaves the file as it was, a failed write leaves it truncated
save_frontmatter(data, body, old, write) ==
    CASE write = "ok" -> [content |-> updated_content(data, body), ret |-> TRUE]
      [] write = "denied" -> [content |-> old, ret |-> FALSE]
      [] OTHER -> [content |-> <<>>, ret |-> FALSE]

\* `modified or update_categories(data, file_path)`: the categories rule is
\* not run on a mapping the title and date rule changed
CategoriesUnlessModified(data, modified) ==
    IF modified THEN [data |-> data, modified |-> FALSE] ELSE update_categories(data)

\* line 272, `update_categories(data, file_path) or modified`: the categories
\* rule is run whatever the title and date rule returned
CategoriesThenModified(data, modified) == update_categories(data)

\* update_frontmatter on a file holding `content`: the value returned, the
\* file afterwards, whether an exception escaped, and where it ended
update_frontmatter(content, file_path, now, readable, write) ==
    LET end(stage, ret, new, raised, modified) ==
            [stage |-> stage, ret |-> ret, content |-> new, raised |-> raised,
             modified |-> modified]
        \* line 277: the save and its result
        afterSave(wrote) ==
            IF wrote.ret THEN end("rewritten", TRUE, wrote.content, FALSE, TRUE)
            ELSE end("write_failed", FALSE, wrote.content, FALSE, TRUE)
        \* lines 272-277: modified = cat_modified or modified
        afterCategories(body, td, cat) ==
            IF ~(cat.modified \/ td.modified)
            THEN end("not_modified", FALSE, content, FALSE, FALSE)
            ELSE afterSave(save_frontmatter(cat.data, body, content, write))
        afterTitleAndDate(body, td) ==
            afterCategories(body, td, CategoriesThenModified(td.data, td.modified))
        \* lines 267-271
        afterParse(body, parsed) ==
            IF ~parsed.ok THEN end("parse_failed", FALSE, content, FALSE, FALSE)
            \* a list, str or int document: line 160 or 162 raises TypeError
            ELSE IF ~parsed.isdict THEN end("raised", FALSE, content, TRUE, FALSE)
            ELSE afterTitleAndDate(body, update_title_and_date(parsed.data, file_path, now))
        \* lines 263-266
        afterSplit(sp) ==
            IF ~sp.ok THEN end("no_frontmatter", FALSE, content, FALSE, FALSE)
            ELSE afterParse(sp.body, parse_yaml_frontmatter(sp.frontmatter_text))
    IN  IF ~readable THEN end("unreadable", FALSE, content, FALSE, FALSE)
        ELSE afterSplit(split_frontmatter(content))

-----------------------------------------------------------------------------
(* Inputs *)

\* datetime.now().isoformat(): some non-empty text
Now == {<<"2026-11-01T10:00:00">>, <<"2026-11-01T10:00:07">>}

PathMyPost == <<SLASH, "m", "y", USCORE, "p", EXT>>
PathTab == <<SLASH, "m", "y", TAB, "b", "a", EXT>>

RECURSIVE SeqsUpTo(_, _)
SeqsUpTo(S, n) ==
    IF n = 0 THEN {<<>>}
    ELSE LET shorter == SeqsUpTo(S, n - 1)
         IN  shorter \cup {Append(q, x) : q \in shorter, x \in S}

CatEntries ==
    {StrV(<<>>, DQ), StrV(<<SP>>, DQ), StrV(<<"Tech">>, ""), StrV(<<"News">>, DQ), IntV("5")}

Absent == [t |-> "absent"]
TitleInputs == {Absent, StrV(<<>>, DQ), StrV(<<"T">>, "")}
DateInputs == {Absent, StrV(<<"2020-01-01">>, DQ)}
CategoriesInputs ==
    {Absent, NullV, StrV(<<"Tech">>, "")} \cup {ListV(l) : l \in SeqsUpTo(CatEntries, MaxCats)}
DraftInputs == {Absent, StrV(<<"x">>, "")}

Entry(k, v) == IF v = Absent THEN <<>> ELSE <<[k |-> k, v |-> v]>>

\* the mappings given: any of the fields present or not, `draft` before or
\* after the others
DataInputs ==
    {Entry("title", t) \o Entry("date", d) \o Entry("categories", c) \o Entry("draft", x) :
        t \in TitleInputs, d \in DateInputs, c \in CategoriesInputs, x \in DraftInputs}
    \cup
    {Entry("draft", x) \o Entry("categories", c) \o Entry("title", t) \o Entry("date", d) :
        t \in TitleInputs, d \in DateInputs, c \in CategoriesInputs, x \in DraftInputs \ {Absent}}

BodyInputs == {<<NL, "b">>, <<"b">>}

-----------------------------------------------------------------------------
(* The normalizer on one document *)

mainIdle ==
    /\ fs = <<>> /\ store = <<>> /\ hashes = <<>> /\ updated_hashes = <<>>
    /\ modified_files = <<>> /\ pc = "off" /\ todo = {} /\ run = 0 /\ faults = 0
    /\ saved = "no" /\ outcome = <<>> /\ pre = <<>> /\ ldres = <<>>

InitNorm ==
    /\ mainIdle
    /\ npath \in {PathMyPost, PathTab}
    /\ ndata \in DataInputs
    /\ \E body \in BodyInputs : ndoc = updated_content(ndata, body)
    /\ nres = <<>>

\* the categories rule alone, on the mapping
ApplyCategories ==
    /\ nres = <<>>
    /\ LET r == update_categories(ndata)
       IN  nres' = <<[op |-> "categories", data |-> r.data, modified |-> r.modified]>>
    /\ UNCHANGED <<npath, ndata, ndoc, ldres>>
    /\ UNCHANGED mainVars

\* the title and date rule alone, on the mapping
ApplyTitleAndDate ==
    /\ nres = <<>>
    /\ \E now \in Now :
         LET r == update_title_and_date(ndata, npath, now)
         IN  nres' = <<[op |-> "title_date", data |-> r.data, modified |-> r.modified]>>
    /\ UNCHANGED <<npath, ndata, ndoc, ldres>>
    /\ UNCHANGED mainVars

\* update_frontmatter on the document, again and again
ApplyUpdate ==
    /\ Len(nres) < MaxApply
    /\ \A i \in 1..Len(nres) : nres[i].op = "update"
    /\ \E now \in Now :
         \E r \in {update_frontmatter(ndoc, npath, now, TRUE, "ok")} :
             /\ ndoc' = r.content
             /\ nres' = Append(nres, [op |-> "update", stage |-> r.stage, ret |-> r.ret,
                                      before |-> ndoc])
    /\ UNCHANGED <<npath, ndata, ldres>>
    /\ UNCHANGED mainVars

NextNorm == ApplyCategories \/ ApplyTitleAndDate \/ ApplyUpdate

SpecNorm == InitNorm /\ [][NextNorm]_vars

\* update_title_and_date on the files of a directory: names of letters,
\* underscores and ".md", each ending in ".md"
NameAlphabet == {"m", "Y", USCORE, EXT}
TitlePaths == {<<SLASH>> \o name \o <<EXT>> : name \in SeqsUpTo(NameAlphabet, MaxNameLen)}
TitleData ==
    {Entry("title", t) \o Entry("date", d) :
        t \in TitleInputs \cup {NullV, IntV("0")}, d \in DateInputs}

InitTitle ==
    /\ mainIdle
    /\ npath \in TitlePaths
    /\ ndata \in TitleData
    /\ ndoc = <<>>
    /\ nres = <<>>

NextTitle == ApplyTitleAndDate

SpecTitle == InitTitle /\ [][NextTitle]_vars

\* the two rules on mappings with other keys among title, date and categories
FrameCategories ==
    {Absent, NullV, ListV(<<>>), ListV(<<StrV(<<"Tech">>, "")>>),
     ListV(<<StrV(<<"Tech">>, ""), StrV(<<"News">>, DQ)>>),
     ListV(<<StrV(<<SP>>, DQ), StrV(<<"Tech">>, "")>>),
     ListV(<<StrV(<<>>, DQ), IntV("5")>>)}
FrameData ==
    LET draft == Entry("draft", StrV(<<"x">>, ""))
        tags == Entry("tags", ListV(<<StrV(<<"y">>, DQ)>>))
    IN  UNION {{draft \o Entry("title", t) \o Entry("date", d) \o tags \o Entry("categories", c),
                tags \o Entry("categories", c) \o draft \o Entry("date", d) \o Entry("title", t),
                Entry("categories", c) \o Entry("title", t) \o tags \o draft \o Entry("date", d),
                Entry("title", t) \o Entry("date", d) \o Entry("categories", c)} :
               t \in TitleInputs, d \in DateInputs, c \in FrameCategories}

InitFrame ==
    /\ mainIdle
    /\ npath = PathMyPost
    /\ ndata \in FrameData
    /\ ndoc = <<>>
    /\ nres = <<>>

NextFrame == ApplyCategories \/ ApplyTitleAndDate

SpecFrame == InitFrame /\ [][NextFrame]_vars

\* save_frontmatter and then split_frontmatter on what it wrote, again and
\* again with the body the split gave; ndoc is the body in hand. The titles
\* include the one update_title_and_date gives the file a---b.md, the bodies
\* some with a horizontal rule
RoundTitles == {Absent, StrV(<<"T">>, ""), StrV(<<"A", MARK, "B">>, DQ)}
RoundCategories ==
    {Absent, ListV(<<StrV(<<"Tech">>, "")>>),
     ListV(<<StrV(<<"Tech">>, ""), StrV(<<"News">>, DQ)>>)}
RoundData ==
    {Entry("title", t) \o Entry("categories", c) \o Entry("draft", x) :
        t \in RoundTitles, c \in RoundCategories, x \in DraftInputs}
RoundBodies ==
    {<<>>, <<"b">>, <<NL, "b">>, <<NL, NL, "b">>, <<"b", NL, MARK, NL, "c">>,
     <<NL, "b", NL, MARK, NL>>}

InitRound ==
    /\ mainIdle
    /\ npath = PathMyPost
    /\ ndata \in RoundData
    /\ ndoc \in RoundBodies
    /\ nres = <<>>

SaveAndSplit ==
    /\ Len(nres) < MaxApply
    /\ \E wrote \in {save_frontmatter(ndata, ndoc, <<>>, "ok")} :
         \E sp \in {split_frontmatter(wrote.content)} :
             /\ nres' = Append(nres, [op |-> "save_split", body |-> ndoc,
                                      content |-> wrote.content, split |-> sp])
             /\ ndoc' = IF sp.ok THEN sp.body ELSE ndoc
    /\ UNCHANGED <<npath, ndata, ldres>>
    /\ UNCHANGED mainVars

NextRound == SaveAndSplit

SpecRound == InitRound /\ [][NextRound]_vars

-----------------------------------------------------------------------------
(* The hash ledger *)

\* the hex digest of a content: one text per content, free of white space
HexToken(c) ==
    CASE c = TAB -> "09" [] c = NL -> "0a" [] c = SP -> "20" [] OTHER -> c
Digest(content) == <<"sha256">> \o [i \in 1..Len(content) |-> HexToken(content[i])]

\* calculate_hash: None when the file cannot be opened or read
calculate_hash(content, readable) == IF readable THEN Digest(content) ELSE NoneStr

\* os.path.abspath, the working directory being "/"
abspath(p) == IF p # <<>> /\ Head(p) = SLASH THEN p ELSE <<SLASH>> \o p

NoFile == <<"<no file>">>

\* lines 56-62: one line of the hash file
LoadHashLine(acc, line) ==
    LET parts == SplitOn(Strip(line), TAB)
    IN  IF Len(parts) # 2 THEN acc
        ELSE Put(acc, abspath(parts[1]), parts[2])

RECURSIVE LoadHashLines(_, _)
LoadHashLines(acc, lines) ==
    IF lines = <<>> THEN acc
    ELSE LoadHashLines(LoadHashLine(acc, Head(lines)), Tail(lines))

load_hashes(hash_file) ==
    IF hash_file = NoFile THEN <<>> ELSE LoadHashLines(<<>>, FileLines(hash_file))

HashFileText(h) ==
    Concat([i \in 1..Len(h) |-> h[i].k \o <<TAB>> \o h[i].v \o <<NL>>])

\* save_hashes: the hash file afterwards; a failed open leaves it as it was,
\* a failed write leaves it truncated
save_hashes(h, hash_file, write) ==
    CASE write = "ok" -> HashFileText(h)
      [] write = "denied" -> hash_file
      [] OTHER -> <<>>

-----------------------------------------------------------------------------
(* One file of the scan *)

Faults == {"none", "hash", "read", "write_denied", "write_truncated", "rehash"}

\* the comparison lost: every file is taken as changed
UnchangedNever(previous_hash, current_hash) == FALSE

\* lines 295-296: the file is as the ledger has it
Unchanged(previous_hash, current_hash) == previous_hash = current_hash

\* the file reported whatever update_frontmatter returned
AfterUpdateAlwaysReported(modified, current_hash, new_hash, file_path) ==
    [new_hash |-> new_hash, modified_file |-> file_path, was_modified |-> TRUE]

\* the hash taken before the rewrite returned after it
AfterUpdateStaleHash(modified, current_hash, new_hash, file_path) ==
    IF modified
    THEN [new_hash |-> current_hash, modified_file |-> file_path, was_modified |-> TRUE]
    ELSE [new_hash |-> current_hash, modified_file |-> NoneStr, was_modified |-> FALSE]

\* lines 301-307: what is returned once update_frontmatter has returned
AfterUpdate(modified, current_hash, new_hash, file_path) ==
    IF modified
    THEN [new_hash |-> new_hash, modified_file |-> file_path, was_modified |-> TRUE]
    ELSE [new_hash |-> current_hash, modified_file |-> NoneStr, was_modified |-> FALSE]

\* process_markdown_file: the triple returned, the file afterwards, whether an
\* exception escaped, where it ended, and whether the fault was met
process_markdown_file(content, file_path, previous_hash, now, fault) ==
    LET ret(h, f, m, c, stage, raised, met) ==
            [new_hash |-> h, modified_file |-> f, was_modified |-> m, content |-> c,
             stage |-> stage, raised |-> raised, met |-> met]
        returned(a, u) ==
            ret(a.new_hash, a.modified_file, a.was_modified, u.content, u.stage, FALSE,
                \/ fault = "none"
                \/ fault = "rehash" /\ u.stage = "rewritten"
                \/ fault = "read" /\ u.stage = "unreadable"
                \/ fault \in {"write_denied", "write_truncated"} /\ u.stage = "write_failed")
        \* lines 298-307
        afterUpdate(current_hash, u) ==
            IF u.raised
            THEN ret(NoneStr, NoneStr, FALSE, u.content, u.stage, TRUE, fault = "none")
            ELSE returned(AfterUpdate(u.ret, current_hash,
                                      calculate_hash(u.content, fault # "rehash"), file_path),
                          u)
        \* lines 292-298
        afterHash(current_hash) ==
            IF current_hash = NoneStr
            THEN ret(NoneStr, NoneStr, FALSE, content, "hash_failed", FALSE, TRUE)
            ELSE IF Unchanged(previous_hash, current_hash)
            THEN ret(current_hash, NoneStr, FALSE, content, "unchanged", FALSE, fault = "none")
            ELSE afterUpdate(current_hash,
                             update_frontmatter(content, file_path, now, fault # "read",
                                                CASE fault = "write_denied" -> "denied"
                                                  [] fault = "write_truncated" -> "truncated"
                                                  [] OTHER -> "ok"))
    IN  afterHash(calculate_hash(content, fault # "hash"))

-----------------------------------------------------------------------------
(* The directory and the runs of main *)

Files == {PathMyPost, PathTab}
PathGone == <<SLASH, "g", EXT>>

Meta(t, c) ==
    Entry("title", t) \o <<[k |-> "date", v |-> StrV(<<"2020-01-01">>, DQ)]>>
    \o Entry("categories", c)

DocPlain == <<"b", NL>>
DocUnterminated == <<MARK, NL, "title", COLON, SP, "T", NL>>
DocBadYaml == <<MARK, NL, "title", COLON, SP, DQ, "T", NL, MARK, NL, "b">>
DocList == <<MARK, NL, DASH, SP, "Tech", NL, MARK, NL, "b">>
DocComplete ==
    updated_content(Meta(StrV(<<"T">>, ""), ListV(<<StrV(<<"Tech">>, "")>>)), <<NL, "b">>)
DocNoCategories == updated_content(Meta(StrV(<<"T">>, ""), Absent), <<NL, "b">>)
DocNoTitle == updated_content(Meta(Absent, ListV(<<StrV(<<"Tech">>, "")>>)), <<"b">>)

Docs == {DocPlain, DocUnterminated, DocBadYaml, DocList, DocComplete, DocNoCategories,
         DocNoTitle}

StaleHash == <<"sha256", "old">>
HashLine(p, h) == p \o <<TAB>> \o h \o <<NL>>

\* the entry the hash file has for p at the start: none, the hash of what the
\* file holds, or an older hash
LedgerChoices == {"none", "current", "stale"}
InitialLine(f, p, choice) ==
    CASE choice = "none" -> <<>>
      [] choice = "current" -> HashLine(p, Digest(f[p]))
      [] OTHER -> HashLine(p, StaleHash)

InitialStores(f) ==
    {NoFile} \cup
    {HashLine(PathGone, StaleHash) \o InitialLine(f, PathMyPost, a) \o InitialLine(f, PathTab, b) :
        a \in LedgerChoices, b \in LedgerChoices}

normIdle == npath = <<>> /\ ndata = <<>> /\ ndoc = <<>> /\ nres = <<>>

Init ==
    /\ fs \in [Files -> Docs]
    /\ store \in InitialStores(fs)
    /\ hashes = <<>> /\ updated_hashes = <<>> /\ modified_files = <<>>
    /\ pc = "idle" /\ todo = {} /\ run = 0 /\ faults = 0
    /\ saved = "no" /\ outcome = <<>>
    /\ pre = [fs |-> fs, store |-> store, last |-> <<>>, lastpc |-> "idle", lastsaved |-> "no"]
    /\ ldres = <<>>
    /\ normIdle

\* datetime.now() during a run
NowAt(r) == IF r = 1 THEN <<"2026-11-01T10:00:00">> ELSE <<"2026-11-01T10:00:07">>

\* main, lines 339-344: load the ledger and start the scan
Start ==
    /\ pc \in {"idle", "done", "crashed"}
    /\ run < MaxRuns
    /\ run' = run + 1
    /\ hashes' = load_hashes(store)
    /\ updated_hashes' = <<>>
    /\ modified_files' = <<>>
    /\ todo' = Files
    /\ outcome' = <<>>
    /\ saved' = "no"
    /\ pre' = [fs |-> fs, store |-> store, last |-> outcome, lastpc |-> pc, lastsaved |-> saved]
    /\ pc' = "scan"
    /\ UNCHANGED <<fs, store, faults, ldres>>
    /\ UNCHANGED normVars

\* the ledger saved after every file of the loop
LedgerSavedInLoop(hash_file, ledger) == HashFileText(ledger)

\* lines 346-351: the loop updates the ledger in memory only, the hash file
\* stays as it is
LedgerInLoop(hash_file, ledger) == hash_file

\* main, lines 346-351: the loop body on the next file of the walk
ProcessFile(file_path) ==
    /\ pc = "scan"
    /\ file_path \in todo
    /\ \E fault \in Faults :
         \E r \in {process_markdown_file(fs[file_path], file_path,
                                         GetOrNone(hashes, file_path), NowAt(run), fault)} :
             /\ r.met
             /\ fault # "none" => faults < MaxFaults
             /\ faults' = IF fault = "none" THEN faults ELSE faults + 1
             /\ fs' = [fs EXCEPT ![file_path] = r.content]
             /\ outcome' = Put(outcome, file_path,
                               IF r.stage = "rewritten" /\ r.new_hash = NoneStr
                               THEN "rewritten_unhashed" ELSE r.stage)
             /\ IF r.raised
                THEN /\ pc' = "crashed"
                     /\ UNCHANGED <<updated_hashes, modified_files>>
                ELSE /\ pc' = "scan"
                     /\ updated_hashes' =
                            IF r.new_hash # NoneStr
                            THEN Put(updated_hashes, file_path, r.new_hash)
                            ELSE updated_hashes
                     /\ modified_files' =
                            IF r.was_modified /\ r.modified_file # NoneStr
                            THEN Append(modified_files, r.modified_file)
                            ELSE modified_files
    /\ todo' = todo \ {file_path}
    /\ store' = LedgerInLoop(store, updated_hashes')
    /\ UNCHANGED <<hashes, run, saved, pre, ldres>>
    /\ UNCHANGED normVars

\* save_hashes without its try/except: a failed save ends main before the report
FinishRaises ==
    /\ pc = "scan"
    /\ todo = {}
    /\ \E write \in WriteFaults :
         /\ write # "ok" => faults < MaxFaults
         /\ faults' = IF write = "ok" THEN faults ELSE faults + 1
         /\ store' = save_hashes(updated_hashes, store, write)
         /\ saved' = write
         /\ pc' = IF write = "ok" THEN "done" ELSE "crashed"
    /\ UNCHANGED <<fs, hashes, updated_hashes, modified_files, todo, run, outcome, pre, ldres>>
    /\ UNCHANGED normVars

\* main, lines 353-355: save the ledger and print the report
Finish ==
    /\ pc = "scan"
    /\ todo = {}
    /\ \E write \in WriteFaults :
         /\ write # "ok" => faults < MaxFaults
         /\ faults' = IF write = "ok" THEN faults ELSE faults + 1
         /\ store' = save_hashes(updated_hashes, store, write)
         /\ saved' = write
    /\ pc' = "done"
    /\ UNCHANGED <<fs, hashes, updated_hashes, modified_files, todo, run, outcome, pre, ldres>>
    /\ UNCHANGED normVars

Next == Start \/ (\E p \in Files : ProcessFile(p)) \/ Finish

Spec == Init /\ [][Next]_vars

-----------------------------------------------------------------------------
(* load_hashes on any hash file *)

LoadAlphabet == {"p", "h", TAB, NL}

InitLoad ==
    /\ store \in SeqsUpTo(LoadAlphabet, MaxStoreLen)
    /\ ldres = [done |-> FALSE, hashes |-> <<>>]
    /\ fs = <<>> /\ hashes = <<>> /\ updated_hashes = <<>> /\ modified_files = <<>>
    /\ pc = "off" /\ todo = {} /\ run = 0 /\ faults = 0 /\ saved = "no" /\ outcome = <<>> /\ pre = <<>>
    /\ normIdle

LoadLedger ==
    /\ ~ldres.done
    /\ ldres' = [done |-> TRUE, hashes |-> load_hashes(store)]
    /\ UNCHANGED mainVars
    /\ UNCHANGED normVars

NextLoad == LoadLedger

SpecLoad == InitLoad /\ [][NextLoad]_vars

-----------------------------------------------------------------------------
(* generate_hashes.py: update_hashes on a directory *)

\* generate_hashes.load_existing_hashes: line 40 unpacks the parts of a line
\* into two names, which raises ValueError when there are not two of them;
\* ok is FALSE when it raised
RECURSIVE LoadExistingLines(_, _)
LoadExistingLines(acc, lines) ==
    IF lines = <<>> THEN [ok |-> TRUE, hashes |-> acc]
    ELSE LET unpack(parts) ==
                 IF Len(parts) # 2 THEN [ok |-> FALSE, hashes |-> <<>>]
                 ELSE LoadExistingLines(Put(acc, parts[1], parts[2]), Tail(lines))
         IN  unpack(SplitOn(Strip(Head(lines)), TAB))

load_existing_hashes(hash_file) ==
    IF hash_file = NoFile THEN [ok |-> TRUE, hashes |-> <<>>]
    ELSE LoadExistingLines(<<>>, FileLines(hash_file))

\* {**a, **b}: the keys of a in their order with the values of b where b has
\* them, then the other keys of b
RECURSIVE DictMerge(_, _)
DictMerge(a, b) ==
    IF b = <<>> THEN a ELSE DictMerge(Put(a, Head(b).k, Head(b).v), Tail(b))

\* the loop of lines 79-81 kept every key, nothing pruned
PruneNothing(updated, current) == updated

\* lines 79-81: the keys that are not in current_hashes are deleted
Prune(updated, current) ==
    LET InCurrent(e) == Has(current, e.k) IN SelectSeq(updated, InCurrent)

\* file.endswith(".md")
IsMarkdown(file) == file # <<>> /\ file[Len(file)] = EXT

PathTxt == <<SLASH, "n", ".txt">>
DirEntries == {PathMyPost, PathTab, PathTxt}
GenDocs == {DocPlain, DocComplete}

\* the hash file before update_hashes: missing, empty, well formed, or with a
\* line that does not split into two fields
GenStores(f) ==
    LET gone == HashLine(PathGone, StaleHash)
        post == HashLine(PathMyPost, StaleHash)
        txt == HashLine(PathTxt, StaleHash)
    IN  {NoFile, <<>>, gone \o post, post \o gone \o txt,
         gone \o <<NL>> \o post,
         gone \o <<"p", NL>>,
         gone \o HashLine(PathTab, StaleHash),
         <<SP, NL>>}

InitGen ==
    /\ fs \in UNION {[D -> GenDocs] : D \in SUBSET DirEntries}
    /\ store \in GenStores(fs)
    /\ hashes = <<>> /\ updated_hashes = <<>> /\ modified_files = <<>>
    /\ pc = "idle" /\ todo = {} /\ run = 0 /\ faults = 0
    /\ saved = "no" /\ outcome = <<>>
    /\ pre = [fs |-> fs, store |-> store]
    /\ ldres = <<>>
    /\ normIdle

\* update_hashes, lines 67-68
GenLoad ==
    /\ pc = "idle"
    /\ \E r \in {load_existing_hashes(store)} :
         IF r.ok
         THEN /\ hashes' = r.hashes
              /\ todo' = DOMAIN fs
              /\ pc' = "walk"
         ELSE /\ pc' = "load_failed"
              /\ UNCHANGED <<hashes, todo>>
    /\ UNCHANGED <<fs, store, updated_hashes, modified_files, run, faults, saved, outcome, pre,
                   ldres>>
    /\ UNCHANGED normVars

\* update_hashes, lines 71-75: one file of the walk; generate_hashes.calculate_hash
\* (lines 17-21) catches nothing, so a file that cannot be opened or read
\* ends update_hashes
GenVisit(file_path) ==
    /\ pc = "walk"
    /\ file_path \in todo
    /\ todo' = todo \ {file_path}
    /\ IF ~IsMarkdown(file_path)
       THEN /\ outcome' = Put(outcome, file_path, "not_markdown")
            /\ UNCHANGED <<updated_hashes, pc, faults>>
       ELSE \E readable \in BOOLEAN :
              /\ ~readable => faults < MaxFaults
              /\ faults' = IF readable THEN faults ELSE faults + 1
              /\ IF readable
                 THEN /\ updated_hashes' = Put(updated_hashes, file_path, Digest(fs[file_path]))
                      /\ outcome' = Put(outcome, file_path, "hashed")
                      /\ pc' = "walk"
                 ELSE /\ outcome' = Put(outcome, file_path, "hash_failed")
                      /\ pc' = "hash_failed"
                      /\ UNCHANGED updated_hashes
    /\ UNCHANGED <<fs, store, hashes, modified_files, run, saved, pre, ldres>>
    /\ UNCHANGED normVars

\* update_hashes, lines 78-85: merge, prune, save (generate_hashes.save_hashes,
\* lines 51-53, catches nothing) and return
GenSave ==
    /\ pc = "walk"
    /\ todo = {}
    /\ \E write \in WriteFaults :
         /\ write # "ok" => faults < MaxFaults
         /\ faults' = IF write = "ok" THEN faults ELSE faults + 1
         /\ saved' = write
         /\ \E updated \in {Prune(DictMerge(hashes, updated_hashes), updated_hashes)} :
              /\ updated_hashes' = updated
              /\ store' = CASE write = "ok" -> HashFileText(updated)
                            [] write = "denied" -> store
                            [] OTHER -> <<>>
         /\ pc' = IF write = "ok" THEN "done" ELSE "save_failed"
    /\ UNCHANGED <<fs, hashes, modified_files, todo, run, outcome, pre, ldres>>
    /\ UNCHANGED normVars

NextGen == GenLoad \/ (\E p \in DirEntries : GenVisit(p)) \/ GenSave

SpecGen == InitGen /\ [][NextGen]_vars

-----------------------------------------------------------------------------
(* Properties of the normalizer (SpecNorm) *)

\* a string with a character that is not white space
NonEmptyString(e) == e.t = "str" /\ \E i \in 1..Len(e.s) : ~IsSpace(e.s[i])

CategoriesResult == Len(nres) = 1 /\ nres[1].op = "categories"
GivenCategories == Get(ndata, "categories")
GivenGoodList ==
    /\ Has(ndata, "categories")
    /\ GivenCategories.t = "seq"
    /\ \E j \in 1..Len(GivenCategories.l) : NonEmptyString(GivenCategories.l[j])

\* C1: update_frontmatter applied a second time to the document it rewrote,
\* nothing else having changed, returns False and rewrites nothing.
C1_Idempotent ==
    \A i \in 2..Len(nres) :
        nres[i].op = "update" => ~nres[i].ret /\ nres[i].stage = "not_modified"

\* C2: after update_categories the field `categories` is there and is a
\* non-empty list of non-empty strings; where it was absent, not a list, or a
\* list all of whose entries are dropped, it is ["Uncategorized"] and the
\* change is flagged.
C2_CategoriesNonEmptyList ==
    CategoriesResult =>
        LET out == nres[1].data
            c == Get(out, "categories")
        IN  /\ Has(out, "categories")
            /\ c.t = "seq" /\ c.l # <<>>
            /\ \A j \in 1..Len(c.l) : NonEmptyString(c.l[j])
            /\ ~GivenGoodList =>
                  /\ Len(c.l) = 1 /\ c.l[1].s = <<"Uncategorized">>
                  /\ nres[1].modified

\* C3: given a list with at least one non-empty string, update_categories
\* leaves exactly the non-empty strings, in their order, and flags a change
\* if and only if an entry was dropped.
C3_CategoriesFiltered ==
    CategoriesResult /\ GivenGoodList =>
        LET out == nres[1].data
        IN  /\ Has(out, "categories")
            /\ Get(out, "categories") = ListV(SelectSeq(GivenCategories.l, NonEmptyString))
            /\ nres[1].modified
                 <=> \E j \in 1..Len(GivenCategories.l) : ~NonEmptyString(GivenCategories.l[j])

\* ["", " ", "Tech"] has become ["Tech"], the change flagged
C3_Witness ==
    /\ CategoriesResult
    /\ Has(ndata, "categories")
    /\ GivenCategories = ListV(<<StrV(<<>>, DQ), StrV(<<SP>>, DQ), StrV(<<"Tech">>, "")>>)
    /\ Get(nres[1].data, "categories") = ListV(<<StrV(<<"Tech">>, "")>>)
    /\ nres[1].modified

\* the i-th application of update_frontmatter: the mapping and the body the
\* document held before it, and the document after it
BeforeSplit(i) == split_frontmatter(nres[i].before)
BeforeData(i) == parse_yaml_frontmatter(BeforeSplit(i).frontmatter_text).data
AfterDoc(i) == IF i = Len(nres) THEN ndoc ELSE nres[i + 1].before
UpdateEntry(i) == i \in 1..Len(nres) /\ nres[i].op = "update"

\* both rules applied to the mapping, the categories rule on what the title
\* and date rule left
BothRules(data, now) ==
    LET td == update_title_and_date(data, npath, now)
        cat == update_categories(td.data)
    IN  [data |-> cat.data, title_date |-> td.modified, categories |-> cat.modified]

-----------------------------------------------------------------------------
(* Properties of save_frontmatter and split_frontmatter (SpecRound) *)

\* the body as it is written: with one newline before it unless it starts
\* with one
WrittenBody(b) == IF b # <<>> /\ Head(b) = NL THEN b ELSE <<NL>> \o b

\* the serialized mapping with its trailing white space trimmed
Serialized == RStrip(yaml_dump(ndata))

\* C21: what save_frontmatter writes is the marker, a newline, the serialized
\* mapping trimmed, a newline, the marker and the body (after a newline if it
\* does not start with one); split_frontmatter on it gives back that
\* serialized text, on lines of its own, and that body, so a further rewrite
\* gives the same body again.
C21_SplitRoundTrip ==
    \A i \in 1..Len(nres) :
        nres[i].op = "save_split" =>
            /\ nres[i].content =
                   <<MARK, NL>> \o Serialized \o <<NL, MARK>> \o WrittenBody(nres[i].body)
            /\ nres[i].split.ok
            /\ nres[i].split.frontmatter_text = <<NL>> \o Serialized \o <<NL>>
            /\ nres[i].split.body = WrittenBody(nres[i].body)
            /\ i > 1 => nres[i].split.body = nres[i - 1].split.body

-----------------------------------------------------------------------------
(* Properties of the two rules on a mapping with other keys (SpecFrame) *)

\* the entries of the keys no rule is about, in their order
OtherEntries(d) ==
    LET IsOther(e) == e.k \notin {"title", "date", "categories"} IN SelectSeq(d, IsOther)

RuleResult == Len(nres) = 1 /\ nres[1].op \in {"categories", "title_date"}

\* title, date and the other keys keep their values and their order
KeptFrame ==
    LET out == nres[1].data
    IN  /\ OtherEntries(out) = OtherEntries(ndata)
        /\ \A k \in {"title", "date"} :
               Has(ndata, k) /\ Truthy(Get(ndata, k)) =>
                   Has(out, k) /\ Get(out, k) = Get(ndata, k)

\* `categories` is a list and each entry is a string with a character that is
\* not white space
OnlyNonEmptyStrings ==
    /\ Has(ndata, "categories")
    /\ GivenCategories.t = "seq"
    /\ \A j \in 1..Len(GivenCategories.l) : NonEmptyString(GivenCategories.l[j])

\* the mapping is as given and the categories rule flagged nothing
CategoriesLeft ==
    /\ Get(nres[1].data, "categories") = GivenCategories
    /\ nres[1].op = "categories" => nres[1].data = ndata /\ ~nres[1].modified

\* C22 as stated: the rules leave every key other than title, date and
\* categories as it is, in value and order; a truthy title or date is not
\* changed; a categories list that consists only of non-empty strings is left
\* as it is and no change is flagged.
C22_Frame_Stated ==
    RuleResult => KeptFrame /\ (OnlyNonEmptyStrings => CategoriesLeft)

\* C22, amended: the same, the categories list being left as it is when it is
\* not empty and consists only of strings that are non-empty once trimmed.
C22_Frame ==
    RuleResult =>
        /\ KeptFrame
        /\ OnlyNonEmptyStrings /\ GivenCategories.l # <<>> => CategoriesLeft

\* the categories rule on a mapping with two other keys around a good list, a
\* truthy title and a date
C22_Witness ==
    /\ RuleResult
    /\ nres[1].op = "categories"
    /\ Len(OtherEntries(ndata)) = 2
    /\ OnlyNonEmptyStrings /\ Len(GivenCategories.l) = 2
    /\ Has(ndata, "title") /\ Truthy(Get(ndata, "title"))
    /\ nres[1].data = ndata

-----------------------------------------------------------------------------
(* Properties of update_title_and_date (SpecTitle) *)

\* a word with its first letter raised and the others lowered
Capitalized(w) == [i \in 1..Len(w) |-> IF i = 1 THEN ToUpper(w[i]) ELSE ToLower(w[i])]

\* the words of s, each capitalized, with the spaces between them kept
CapitalizedWords(s) ==
    LET words == SplitOn(s, SP)
    IN  Concat([i \in 1..Len(words) |->
                    (IF i = 1 THEN <<>> ELSE <<SP>>) \o Capitalized(words[i])])

\* the base name without its extension
StripExtension(name) ==
    IF name # <<>> /\ name[Len(name)] = EXT THEN SubSeq(name, 1, Len(name) - 1) ELSE name

\* the title the rule is said to give: the base name, its extension stripped,
\* underscores replaced by spaces, each word title-cased
TitleOfName(file_path) ==
    CapitalizedWords(ReplaceTok(StripExtension(basename(file_path)), USCORE, <<SP>>))

TitleDateResult == Len(nres) = 1 /\ nres[1].op = "title_date"
TitleMissing == ~Has(ndata, "title") \/ ~Truthy(Get(ndata, "title"))
DateMissing == ~Has(ndata, "date") \/ ~Truthy(Get(ndata, "date"))

\* C14: where `title` is absent or falsy, update_title_and_date sets it to the
\* title of the file name (extension stripped, underscores to spaces, words
\* title-cased) as a double-quoted string and flags a change; a `title` that is
\* present and truthy stays as it is, and the flag is then the date rule's.
C14_TitleRule ==
    TitleDateResult =>
        LET out == nres[1].data
        IN  /\ Has(out, "title")
            /\ IF TitleMissing
               THEN /\ Get(out, "title") = DoubleQuotedScalarString(TitleOfName(npath))
                    /\ nres[1].modified
               ELSE /\ Get(out, "title") = Get(ndata, "title")
                    /\ nres[1].modified <=> DateMissing

-----------------------------------------------------------------------------
(* Properties of a run of main (Spec) *)

Stage(p) == Get(outcome, p)
Processed(p) == Has(outcome, p)
Reported(p) == p \in Range(modified_files)
\* no read, split, parse, normalize or write was done on p
NotOpened(p) == Stage(p) \in {"unchanged", "hash_failed"}
\* the ledger had, for p, the fingerprint of what p held when the run began
LedgerMatched(p) == GetOrNone(hashes, p) = Digest(pre.fs[p])

SkipEffect(p) ==
    /\ NotOpened(p)
    /\ fs[p] = pre.fs[p]
    /\ ~Reported(p)
    /\ GetOrNone(updated_hashes, p) = Get(hashes, p)

C5_ParseFailureKeepsOldFingerprint ==
    \A p \in Files :
        /\ pc = "done" /\ Stage(p) = "parse_failed"
              => GetOrNone(updated_hashes, p) = GetOrNone(hashes, p)
        /\ run >= 2 /\ Processed(p) /\ Has(pre.last, p) /\ Get(pre.last, p) = "parse_failed"
              => Stage(p) # "unchanged"

\* C6: a document whose rewrite fails keeps, in the ledger the run saves, the
\* fingerprint it had before the run, and the next run processes it again.
C6_WriteFailureKeepsOldFingerprint ==
    \A p \in Files :
        /\ pc = "done" /\ Stage(p) = "write_failed"
              => GetOrNone(updated_hashes, p) = GetOrNone(hashes, p)
        /\ run >= 2 /\ Processed(p) /\ Has(pre.last, p) /\ Get(pre.last, p) = "write_failed"
              => Stage(p) # "unchanged"

\* the ways one file can fail; "raised" is metadata that parses to something
\* other than a mapping
FailureStages ==
    {"hash_failed", "unreadable", "no_frontmatter", "parse_failed", "raised", "write_failed"}

\* C7: whatever failure a file met, the run goes on with the files after it
\* and reaches the ledger save and the report.
C7_FailureIsolation ==
    \A p \in Files :
        Processed(p) /\ Stage(p) \in FailureStages => pc \in {"scan", "done"}

\* C8: the report lists a path if and only if the run rewrote that file
\* successfully.
C8_ReportIsRewritten ==
    pc = "done" =>
        \A p \in Files : Reported(p) <=> Stage(p) \in {"rewritten", "rewritten_unhashed"}

\* the report lists a rewritten file and leaves out one whose write failed
C8_Witness ==
    /\ pc = "done"
    /\ \E p, q \in Files :
         /\ Stage(p) = "rewritten" /\ Reported(p) /\ fs[p] # pre.fs[p]
         /\ Stage(q) = "write_failed" /\ ~Reported(q)

\* the run before this one went through with every hash, write and save done
PreviousRunClean ==
    /\ run >= 2
    /\ pre.lastpc = "done" /\ pre.lastsaved = "ok"
    /\ \A p \in Files :
         /\ Has(pre.last, p)
         /\ Get(pre.last, p) \notin {"hash_failed", "write_failed", "rewritten_unhashed"}

Storable(p) == TAB \notin Range(p) /\ NL \notin Range(p)

NoFrontmatter(content) ==
    \/ content = <<>>
    \/ Head(content) # MARK
    \/ \A i \in 2..Len(content) : content[i] # MARK

\* update_frontmatter was called on p in this run and could read it
Updated(p) == Processed(p) /\ Stage(p) \notin {"unchanged", "hash_failed", "unreadable"}

\* C12: a document with no metadata block, or with one that is never closed,
\* is left as it is: nothing is written, the content is unchanged, the change
\* flag is false (the file is not reported) and no exception escapes.
C12_NoFrontmatterUntouched ==
    \A p \in Files :
        Updated(p) /\ NoFrontmatter(pre.fs[p]) =>
            /\ Stage(p) = "no_frontmatter"
            /\ fs[p] = pre.fs[p]
            /\ ~Reported(p)

\* a finished run over a document without a marker and one whose block is
\* never closed, both new to the ledger
C12_Witness ==
    /\ pc = "done"
    /\ pre.fs[PathMyPost] = DocPlain /\ pre.fs[PathTab] = DocUnterminated
    /\ Stage(PathMyPost) = "no_frontmatter" /\ Stage(PathTab) = "no_frontmatter"

\* what a successful rewrite of p leaves in the file, from its content at the
\* start of the run
RewrittenContent(p) == update_frontmatter(pre.fs[p], p, NowAt(run), TRUE, "ok").content

Rewritten(p) == Stage(p) \in {"rewritten", "rewritten_unhashed"}

\* C15: a save of the ledger that fails does not stop the run and loses no
\* document: main still ends with its report, which names every file rewritten,
\* and every file rewritten in the run holds its rewritten content.
C15_FailedSaveHarmless ==
    saved \in {"denied", "truncated"} =>
        /\ pc = "done"
        /\ \A p \in Files :
               /\ Processed(p)
               /\ Rewritten(p) => fs[p] = RewrittenContent(p) /\ Reported(p)

\* a run that rewrote a file and then could not save the ledger
C15_Witness ==
    /\ pc = "done"
    /\ saved \in {"denied", "truncated"}
    /\ \E p \in Files : Rewritten(p) /\ fs[p] # pre.fs[p]

\* the run ended and its ledger is in the hash file
LedgerSaved == pc = "done" /\ saved = "ok"

\* C16: at the end of a run, every entry of the saved ledger is the
\* fingerprint of what its file holds at that moment.
C16_LedgerFresh ==
    LedgerSaved =>
        \A p \in Keys(updated_hashes) : Get(updated_hashes, p) = Digest(fs[p])

\* a step that writes the hash file
LedgerWritten == store' # store \/ (saved' # saved /\ saved' # "no")

\* C17: the hash file is not written while a file is being or still to be
\* processed: it is written only by the step that follows the last file of
\* the scan, once, so a run that stops before that step leaves the hash file
\* as it was before the run.
C17_SingleTerminalSave ==
    /\ [](pc \in {"scan", "crashed"} => store = pre.store /\ saved = "no")
    /\ [][LedgerWritten =>
              /\ pc = "scan" /\ todo = {} /\ pc' = "done"
              /\ \A p \in Files : Processed(p)
              /\ saved = "no"]_vars

\* a run that stopped on an exception after it had put entries in its ledger:
\* the hash file is as before the run, without them
C17_Witness ==
    /\ pc = "crashed"
    /\ updated_hashes # <<>>
    /\ store = pre.store
    /\ load_hashes(store) # updated_hashes

\* C18: a run of main does not prune: every entry loaded from the hash file
\* for a path that the scan does not find is in the ledger saved at the end of
\* the run, with the same fingerprint.
C18_NoPruning ==
    LedgerSaved =>
        \A p \in Keys(hashes) \ Files :
            /\ Has(updated_hashes, p) /\ Get(updated_hashes, p) = Get(hashes, p)
            /\ Has(load_hashes(store), p) /\ Get(load_hashes(store), p) = Get(hashes, p)

-----------------------------------------------------------------------------
(* Properties of load_hashes (SpecLoad) *)

Fields(line) == SplitOn(line, TAB)
TwoFields(line) ==
    /\ Len(Fields(line)) = 2
    /\ Strip(Fields(line)[1]) # <<>> /\ Strip(Fields(line)[2]) # <<>>

RECURSIVE EntriesOf(_)
EntriesOf(lines) ==
    IF lines = <<>> THEN <<>>
    ELSE LET line == lines[Len(lines)]
             f == Fields(line)
         IN  Put(EntriesOf(SubSeq(lines, 1, Len(lines) - 1)),
                 abspath(Strip(f[1])), Strip(f[2]))

\* C10: load_hashes drops every line that is not exactly two tab-separated
\* fields and returns exactly the entries of the other lines, a later line
\* for a path overriding an earlier one.
C10_ExactlyTwoFields ==
    ldres.done =>
        ldres.hashes = EntriesOf(SelectSeq(FileLines(store), TwoFields))

-----------------------------------------------------------------------------
(* Properties of generate_hashes.update_hashes (SpecGen) *)

\* C11: a hash file with a line that is not two tab-separated fields, an empty
\* line included, does not stop update_hashes: the load ends with that line
\* skipped and update_hashes goes on to its walk and its save.
C11_MalformedLineNotFatal ==
    pc # "load_failed"

\* the .md files the walk finds
Scanned == {p \in DOMAIN fs : IsMarkdown(p)}

\* C13: a file whose hash cannot be computed is skipped for this run:
\* update_hashes goes on with the other files and saves the ledger, so it
\* never ends on the failure with files of the walk left and nothing saved.
C13_HashFailureSkipsFile ==
    \A p \in DOMAIN fs :
        Processed(p) /\ Stage(p) = "hash_failed" => pc \in {"walk", "done"}

\* the dict is exactly the scanned .md files, each once, with the hash of
\* what the file holds
ExactlyScanned(h) ==
    /\ Keys(h) = Scanned
    /\ Len(h) = Cardinality(Scanned)
    /\ \A p \in Scanned : Get(h, p) = Digest(fs[p])

=============================================================================
